---- MODULE Spec2Model ----
(***************************************************************************)
(* A model of the notebook goes-data-timeseries.ipynb: the gap filler      *)
(* forward_fill_2d, the nearest-point search find_nearest_indices with its *)
(* two-pass refinement, the neighbour generator calculate_points and the   *)
(* time-series extraction loop, together with the notebook's global        *)
(* variables that the cells share.                                         *)
(*                                                                         *)
(* Conventions.  Arrays are functions over 0-based index ranges, as in     *)
(* Python.  A cell of an array is a record [def, val]: def = FALSE is NaN. *)
(* Reals are modelled exactly by integers: coordinates are counted in      *)
(* hundredths of a degree, and the values put in grids that are            *)
(* interpolated are multiples of Scale, so that every linear interpolation *)
(* over at most FillRows rows is an exact integer (floating-point rounding *)
(* is not modelled).                                                       *)
(***************************************************************************)
EXTENDS Integers, Sequences, FiniteSets, TLC

VARIABLES
    \* ---- objects of the gap-filler harness
    heap,        \* array objects: reference -> contents
    arg,         \* the reference passed to the latest forward_fill_2d call
    ret,         \* the reference it returned (NoRef: none, or it raised)
    pre,         \* contents of the argument when the latest call started
    fill_pc,     \* "ready" | "returned" | "returned2" | "raised"
    \* ---- notebook globals
    ds,          \* the dataset bound to ds (NoDs before any load)
    abi_lat,     \* gap-filled latitude grid  (<<>> before any load)
    abi_lon,     \* gap-filled longitude grid (<<>> before any load)
    grid_of,     \* the dataset abi_lat / abi_lon were computed from
    lat_idx,     \* global lat_idx (None before the locate cell ran)
    lon_idx,     \* global lon_idx
    idx_of,      \* the dataset whose grid lat_idx / lon_idx were searched on
    first_guess, \* the pair printed as 'first guess i,j'
    points,      \* global points (<<>> before calculate_points ran)
    call,        \* the latest calculate_points call: its istep argument, the
                 \* globals lat_idx, lon_idx it read, and the dataset those
                 \* were located on
    subset,      \* the extracted series (<<>> before the extraction ran)
    taken,       \* the latest completed extraction: the dataset read, the
                 \* points iterated over, the dataset their centre was located on
    error,       \* the exception the latest cell raised ("none" if none)
    geo          \* where the target sits in each dataset's scan grid

vars == << heap, arg, ret, pre, fill_pc, ds, abi_lat, abi_lon, grid_of,
           lat_idx, lon_idx, idx_of, first_guess, points, call, subset,
           taken, error, geo >>

fillVars == << heap, arg, ret, pre, fill_pc >>
bookVars == << ds, abi_lat, abi_lon, grid_of, lat_idx, lon_idx, idx_of,
               first_guess, points, call, subset, taken, error, geo >>

----------------------------------------------------------------------------
(* Bounds of the model *)

FillRows == 3
FillCols == 2
LocRows == 2
LocCols == 2
NumY == 3
NumX == 3
MaxT == 2
MaxStep == 2

(* Program constants: target_lat = 25.76, target_lon = -80.19, in          *)
(* hundredths of a degree.                                                  *)
target_lat == 2576
target_lon == -8019

----------------------------------------------------------------------------
(* Cells and arrays *)

NaN == [def |-> FALSE, val |-> 0]
Num(v) == [def |-> TRUE, val |-> v]
isnan(c) == ~c.def

NCols(arr) == Cardinality(DOMAIN arr[0])

RECURSIVE Factorial(_)
Factorial(n) == IF n <= 1 THEN 1 ELSE n * Factorial(n - 1)

\* Every slope (fp[j+1]-fp[j])/(xp[j+1]-xp[j]) over at most FillRows rows of
\* multiples of Scale is an integer.
Scale == Factorial(FillRows)

----------------------------------------------------------------------------
(* numpy: flatnonzero and interp *)

RECURSIVE FlatFrom(_, _, _)
FlatFrom(mask, k, n) ==
    IF k >= n THEN << >>
    ELSE (IF mask[k] THEN << k >> ELSE << >>) \o FlatFrom(mask, k + 1, n)

\* np.flatnonzero(mask): the indices where mask holds, ascending.
flatnonzero(mask) == FlatFrom(mask, 0, Cardinality(DOMAIN mask))

\* np.interp at one abscissa: clamped to fp[0] / fp[-1] outside the sample
\* range, linear between the two samples around x inside it.
InterpOne(x, xp, fp) ==
    IF x <= xp[1] THEN fp[1]
    ELSE IF x >= xp[Len(xp)] THEN fp[Len(xp)]
    ELSE LET j == CHOOSE k \in 1..(Len(xp) - 1) : xp[k] <= x /\ x < xp[k + 1]
         IN  fp[j] + ((x - xp[j]) * (fp[j + 1] - fp[j])) \div (xp[j + 1] - xp[j])

\* The same, but NaN outside the sample range (np.interp with left/right = nan).
InterpOne_noclamp(x, xp, fp) ==
    IF x < xp[1] \/ x > xp[Len(xp)] THEN NaN ELSE Num(InterpOne(x, xp, fp))

\* np.interp(x, xp, fp) that answers an empty sample array with zeros.
np_interp_silent(x, xp, fp) ==
    IF Len(xp) = 0
    THEN [ok |-> TRUE, val |-> [k \in 1..Len(x) |-> Num(0)]]
    ELSE [ok |-> TRUE, val |-> [k \in 1..Len(x) |-> Num(InterpOne(x[k], xp, fp))]]

\* np.interp(x, xp, fp): ValueError("array of sample points is empty") when
\* xp is empty, else the interpolated values, one per abscissa.
np_interp(x, xp, fp) ==
    IF Len(xp) = 0
    THEN [ok |-> FALSE, val |-> << >>]
    ELSE [ok |-> TRUE, val |-> [k \in 1..Len(x) |-> Num(InterpOne(x[k], xp, fp))]]

----------------------------------------------------------------------------
(* forward_fill_2d *)

\* The loop body with the out-of-range rows left NaN.
FillColumn_noclamp(arr, i) ==
    LET mask == [r \in DOMAIN arr |-> isnan(arr[r][i])]
        x    == flatnonzero(mask)
        xp   == flatnonzero([r \in DOMAIN arr |-> ~mask[r]])
        fp   == [k \in 1..Len(xp) |-> arr[xp[k]][i].val]
    IN  IF Len(xp) = 0 THEN [ok |-> FALSE, arr |-> arr]
        ELSE [ok  |-> TRUE,
              arr |-> [r \in DOMAIN arr |-> [c \in DOMAIN arr[r] |->
                         IF c = i /\ mask[r]
                         THEN InterpOne_noclamp(r, xp, fp)
                         ELSE arr[r][c]]]]

\* One iteration of the loop: column i of arr, its NaN rows overwritten in
\* place with np.interp of the defined rows.  ok = FALSE: np.interp raised and
\* arr is as the earlier iterations left it.
FillColumn(arr, i) ==
    LET mask == [r \in DOMAIN arr |-> isnan(arr[r][i])]
        x    == flatnonzero(mask)
        xp   == flatnonzero([r \in DOMAIN arr |-> ~mask[r]])
        fp   == [k \in 1..Len(xp) |-> arr[xp[k]][i].val]
        res  == np_interp(x, xp, fp)
    IN  IF ~res.ok THEN [ok |-> FALSE, arr |-> arr]
        ELSE [ok  |-> TRUE,
              arr |-> [r \in DOMAIN arr |-> [c \in DOMAIN arr[r] |->
                         IF c = i /\ mask[r]
                         THEN res.val[CHOOSE k \in 1..Len(x) : x[k] = r]
                         ELSE arr[r][c]]]]

RECURSIVE FillFrom(_, _)
\* for i in range(arr.shape[1]), from column i on.
FillFrom(arr, i) ==
    IF i >= NCols(arr) THEN [ok |-> TRUE, arr |-> arr]
    ELSE LET s == FillColumn(arr, i)
         IN  IF ~s.ok THEN s ELSE FillFrom(s.arr, i + 1)

NoRef == "NoRef"

\* forward_fill_2d(arr) on the object h[ref]: the object is filled in place
\* and the same reference is returned; raised: the exception left the
\* function (no value returned), the object keeps the columns filled so far.
forward_fill_2d(h, ref) ==
    LET s == FillFrom(h[ref], 0)
    IN  [raised |-> ~s.ok,
         heap   |-> [h EXCEPT ![ref] = s.arr],
         ret    |-> IF s.ok THEN ref ELSE NoRef]

\* The call site's idiom, forward_fill_2d(a.copy()), on a grid value: the
\* copy is a fresh object, so the value a holds is not touched.
fill_of_copy(a) ==
    LET r == forward_fill_2d([copy |-> a], "copy")
    IN  [raised |-> r.raised, arr |-> r.heap["copy"]]

----------------------------------------------------------------------------
(* find_nearest_indices *)

Abs(x) == IF x < 0 THEN -x ELSE x

\* a - t without the absolute value.
abs_diff_signed(a, t) ==
    [k \in DOMAIN a |-> IF isnan(a[k]) THEN NaN ELSE Num(a[k].val - t)]

\* np.abs(a - t), elementwise; NaN stays NaN.
abs_diff(a, t) ==
    [k \in DOMAIN a |-> IF isnan(a[k]) THEN NaN ELSE Num(Abs(a[k].val - t))]

\* argmax in the place of argmin: the first index of the maximum.
np_argmax(a) ==
    CHOOSE i \in DOMAIN a :
        /\ \A j \in DOMAIN a : a[i].val >= a[j].val
        /\ \A j \in DOMAIN a : j < i => a[j].val < a[i].val

\* ndarray.argmin(): the first index of the minimum; the first NaN if any.
np_argmin(a) ==
    IF \E i \in DOMAIN a : isnan(a[i])
    THEN CHOOSE i \in DOMAIN a :
            isnan(a[i]) /\ \A j \in DOMAIN a : j < i => ~isnan(a[j])
    ELSE CHOOSE i \in DOMAIN a :
            /\ \A j \in DOMAIN a : a[i].val <= a[j].val
            /\ \A j \in DOMAIN a : j < i => a[j].val > a[i].val

find_nearest_indices(lat_arr, lon_arr, t_lat, t_lon) ==
    << np_argmin(abs_diff(lat_arr, t_lat)), np_argmin(abs_diff(lon_arr, t_lon)) >>

\* arr[:, c] and arr[r, :]
Column(arr, c) == [r \in DOMAIN arr |-> arr[r][c]]
Row(arr, r) == arr[r]

----------------------------------------------------------------------------
(* The datasets the notebook loads *)

NoDs == "none"
\* "latest": ds = G.latest() of product ABI-L2-MCMIPC; no time dimension.
\* "series": ds = xr.open_mfdataset(...), the last hour, concatenated on time.
Datasets == {"latest", "series"}

\* Number of samples along time (one for a dataset without a time dimension).
NumTimes(d) == IF d = "series" THEN MaxT ELSE 1

DsNum(d) == IF d = "series" THEN 2 ELSE 1

\* The data field CMI_C01 of dataset d, [time][y][x]: every defined sample is
\* different from every other one, and some samples are missing.
Field(d) ==
    [t \in 0..(NumTimes(d) - 1) |-> [y \in 0..(NumY - 1) |-> [x \in 0..(NumX - 1) |->
        IF (t + y + 2 * x) % 4 = 3 THEN NaN
        ELSE Num(((DsNum(d) * 10 + t) * 10 + y) * 10 + x)]]]

\* calculate_degrees(ds): the geographic grid of the dataset's scan grid.  The
\* projection equations are not modelled; the grid is the one whose cell
\* g = (row, column) has the target's coordinates, one Scale per scan step,
\* with the corner cell (0, 0) off the Earth (NaN).
calculate_degrees(g) ==
    [lat |-> [y \in 0..(NumY - 1) |-> [x \in 0..(NumX - 1) |->
                IF y = 0 /\ x = 0 THEN NaN
                ELSE Num(target_lat + (y - g[1]) * Scale)]],
     lon |-> [y \in 0..(NumY - 1) |-> [x \in 0..(NumX - 1) |->
                IF y = 0 /\ x = 0 THEN NaN
                ELSE Num(target_lon + (x - g[2]) * Scale)]]]

----------------------------------------------------------------------------
(* calculate_points *)

\* calculate_points(istep), with the globals lat_idx, lon_idx it reads made
\* parameters.  The first statement overwrites the argument with 1.
calculate_points(istep_arg, lat, lon) ==
    LET istep == 1
    IN  << [i |-> lon + istep, j |-> lat + istep, name |-> "NE"],
           [i |-> lon + istep, j |-> lat,         name |-> "East"],
           [i |-> lon + istep, j |-> lat - istep, name |-> "SW"],
           [i |-> lon,         j |-> lat + istep, name |-> "N"],
           [i |-> lon,         j |-> lat - istep, name |-> "S"],
           [i |-> lon - istep, j |-> lat + istep, name |-> "NW"],
           [i |-> lon - istep, j |-> lat,         name |-> "W"],
           [i |-> lon - istep, j |-> lat - istep, name |-> "SW"] >>

----------------------------------------------------------------------------
(* The extraction loop *)

\* Integer indexing of an axis of length n: a negative index counts from the
\* end, an index outside -n .. n-1 is an IndexError (ok = FALSE).
py_index(k, n) ==
    IF 0 <= k /\ k < n THEN [ok |-> TRUE, at |-> k]
    ELSE IF -n <= k /\ k < 0 THEN [ok |-> TRUE, at |-> k + n]
    ELSE [ok |-> FALSE, at |-> 0]

\* ds.isel(y=j, x=i): the samples of the cell along time.
isel(d, j, i) ==
    LET yy == py_index(j, NumY)
        xx == py_index(i, NumX)
    IN  IF ~yy.ok \/ ~xx.ok THEN [ok |-> FALSE, val |-> << >>]
        ELSE [ok  |-> TRUE,
              val |-> [t \in 0..(NumTimes(d) - 1) |-> Field(d)[t][yy.at][xx.at]]]

\* A concat that puts the new series first.
xr_concat_front(combined_data, tem) == << tem >> \o combined_data

\* xr.concat([combined_data, tem], dim="points_index")
xr_concat(combined_data, tem) == Append(combined_data, tem)

RECURSIVE ExtractFrom(_, _, _, _)
\* The loop from iteration p (0-based) on, combined_data being what the
\* earlier iterations built.
ExtractFrom(d, pts, p, combined_data) ==
    IF p >= Len(pts) THEN [ok |-> TRUE, val |-> combined_data]
    ELSE LET tem == isel(d, pts[p + 1].j, pts[p + 1].i)
         IN  IF ~tem.ok THEN [ok |-> FALSE, val |-> << >>]
             ELSE ExtractFrom(d, pts, p + 1,
                              IF p = 0 THEN << tem.val >>
                              ELSE xr_concat(combined_data, tem.val))

----------------------------------------------------------------------------
(* The gap filler called on its own *)

\* The grids the filler is tried on: a coordinate field, rising or falling
\* along the rows and not linear in the row index, with any set of its cells
\* undefined.
FieldValue(k, r, c) == Scale * (k * r * r + 2 * c)
FillGrids ==
    { [r \in 0..(FillRows - 1) |-> [c \in 0..(FillCols - 1) |->
          IF << r, c >> \in holes THEN NaN ELSE Num(FieldValue(k, r, c))]] :
      k \in {-1, 1},
      holes \in SUBSET ((0..(FillRows - 1)) \X (0..(FillCols - 1))) }

NoGrid == << >>

IdleBook ==
    /\ ds = NoDs /\ abi_lat = NoGrid /\ abi_lon = NoGrid /\ grid_of = NoDs
    /\ lat_idx = 0 /\ lon_idx = 0 /\ idx_of = NoDs /\ first_guess = << 0, 0 >>
    /\ points = << >> /\ call = [istep |-> 0, lat |-> 0, lon |-> 0, of |-> NoDs]
    /\ subset = << >> /\ taken = [ds |-> NoDs, pts |-> << >>, of |-> NoDs]
    /\ error = "none"

IdleFill ==
    /\ heap = << >> /\ arg = NoRef /\ ret = NoRef /\ pre = NoGrid
    /\ fill_pc = "idle"

InitFill ==
    /\ \E g \in FillGrids : heap = [raw |-> g] /\ pre = g
    /\ arg = NoRef /\ ret = NoRef /\ fill_pc = "ready"
    /\ IdleBook /\ geo = << >>

\* forward_fill_2d(a): the caller's array itself is passed.
FillDirect ==
    /\ fill_pc = "ready"
    /\ LET r == forward_fill_2d(heap, "raw")
       IN  /\ heap' = r.heap
           /\ ret' = r.ret
           /\ fill_pc' = IF r.raised THEN "raised" ELSE "returned"
    /\ arg' = "raw"
    /\ pre' = heap["raw"]
    /\ UNCHANGED bookVars

\* forward_fill_2d(a.copy()), as the notebook's cells call it.
FillOnCopy ==
    /\ fill_pc = "ready"
    /\ LET r == forward_fill_2d([raw |-> heap["raw"], copy |-> heap["raw"]], "copy")
       IN  /\ heap' = r.heap
           /\ ret' = r.ret
           /\ fill_pc' = IF r.raised THEN "raised" ELSE "returned"
    /\ arg' = "copy"
    /\ pre' = heap["raw"]
    /\ UNCHANGED bookVars

\* forward_fill_2d applied to what forward_fill_2d returned.
FillAgain ==
    /\ fill_pc = "returned"
    /\ LET r == forward_fill_2d(heap, ret)
       IN  /\ heap' = r.heap
           /\ ret' = r.ret
           /\ fill_pc' = IF r.raised THEN "raised" ELSE "returned2"
    /\ arg' = ret
    /\ pre' = heap[ret]
    /\ UNCHANGED bookVars

NextFill == FillDirect \/ FillOnCopy \/ FillAgain

SpecFill == InitFill /\ [][NextFill]_vars

----------------------------------------------------------------------------
(* The notebook's cells *)

\* abi_lat, abi_lon = calculate_degrees(ds);
\* abi_lat = forward_fill_2d(abi_lat.copy()); abi_lon likewise.
\* A fill that raises leaves the unfilled grids bound.
LoadGrid(d) ==
    LET deg == calculate_degrees(geo[d])
        la  == fill_of_copy(deg.lat)
        lo  == fill_of_copy(deg.lon)
    IN  /\ abi_lat' = IF la.raised THEN deg.lat ELSE la.arr
        /\ abi_lon' = IF la.raised \/ lo.raised THEN deg.lon ELSE lo.arr
        /\ error' = IF la.raised \/ lo.raised THEN "ValueError" ELSE "none"
        /\ grid_of' = d

\* ds = G.latest() and its grids
CellLatest ==
    /\ ds' = "latest"
    /\ LoadGrid("latest")
    /\ UNCHANGED << lat_idx, lon_idx, idx_of, first_guess, points, call,
                    subset, taken, geo >>
    /\ UNCHANGED fillVars

\* The two-pass search on the grids bound to abi_lat, abi_lon.
CellLocate ==
    /\ grid_of # NoDs
    /\ LET g1 == find_nearest_indices(Column(abi_lat, 0), Row(abi_lon, 0),
                                      target_lat, target_lon)
           g2 == find_nearest_indices(Column(abi_lat, g1[2]), Row(abi_lon, g1[1]),
                                      target_lat, target_lon)
       IN  /\ first_guess' = g1
           /\ lat_idx' = g2[1]
           /\ lon_idx' = g2[2]
    /\ idx_of' = grid_of
    /\ error' = "none"
    /\ UNCHANGED << ds, abi_lat, abi_lon, grid_of, points, call, subset, taken, geo >>
    /\ UNCHANGED fillVars

\* ds = xr.open_mfdataset(file_ob, combine='nested', concat_dim='time')
CellOpenSeries ==
    /\ ds' = "series"
    /\ error' = "none"
    /\ UNCHANGED << abi_lat, abi_lon, grid_of, lat_idx, lon_idx, idx_of,
                    first_guess, points, call, subset, taken, geo >>
    /\ UNCHANGED fillVars

\* ds2 = ds.isel(time=0) and the grids of ds2; ds must have a time dimension.
CellGrid2 ==
    /\ ds = "series"
    /\ LoadGrid("series")
    /\ UNCHANGED << ds, lat_idx, lon_idx, idx_of, first_guess, points, call,
                    subset, taken, geo >>
    /\ UNCHANGED fillVars

\* points = calculate_points(istep)
CellPoints ==
    /\ idx_of # NoDs
    /\ \E istep \in 1..MaxStep :
          /\ points' = calculate_points(istep, lat_idx, lon_idx)
          /\ call' = [istep |-> istep, lat |-> lat_idx, lon |-> lon_idx, of |-> idx_of]
    /\ error' = "none"
    /\ UNCHANGED << ds, abi_lat, abi_lon, grid_of, lat_idx, lon_idx, idx_of,
                    first_guess, subset, taken, geo >>
    /\ UNCHANGED fillVars

\* The extraction loop and subset = combined_data.load().  An IndexError
\* leaves subset as it was.
CellExtract ==
    /\ ds # NoDs
    /\ points # << >>
    /\ LET r == ExtractFrom(ds, points, 0, << >>)
       IN  /\ subset' = IF r.ok THEN r.val ELSE subset
           /\ taken' = IF r.ok THEN [ds |-> ds, pts |-> points, of |-> call.of]
                       ELSE taken
           /\ error' = IF r.ok THEN "none" ELSE "IndexError"
    /\ UNCHANGED << ds, abi_lat, abi_lon, grid_of, lat_idx, lon_idx, idx_of,
                    first_guess, points, call, geo >>
    /\ UNCHANGED fillVars

Init ==
    /\ geo \in [Datasets -> (0..(NumY - 1)) \X (0..(NumX - 1))]
    /\ IdleBook
    /\ IdleFill

Next ==
    \/ CellLatest
    \/ CellLocate
    \/ CellOpenSeries
    \/ CellGrid2
    \/ CellPoints
    \/ CellExtract

Spec == Init /\ [][Next]_vars

----------------------------------------------------------------------------
(* The two-pass search on arbitrary gap-filled grids *)

LocLatCells == {Num(target_lat), Num(target_lat + 1)}
LocLonCells == {Num(target_lon - 1), Num(target_lon)}

InitLocate ==
    /\ abi_lat \in [0..(LocRows - 1) -> [0..(LocCols - 1) -> LocLatCells]]
    /\ abi_lon \in [0..(LocRows - 1) -> [0..(LocCols - 1) -> LocLonCells]]
    /\ ds = "latest" /\ grid_of = "latest"
    /\ lat_idx = 0 /\ lon_idx = 0 /\ idx_of = NoDs /\ first_guess = << 0, 0 >>
    /\ points = << >> /\ call = [istep |-> 0, lat |-> 0, lon |-> 0, of |-> NoDs]
    /\ subset = << >> /\ taken = [ds |-> NoDs, pts |-> << >>, of |-> NoDs]
    /\ error = "none" /\ geo = << >>
    /\ IdleFill

NextLocate == CellLocate

SpecLocate == InitLocate /\ [][NextLocate]_vars

----------------------------------------------------------------------------
(* Properties *)

Located == idx_of # NoDs
Extracted == subset # << >>
FillReturned == fill_pc \in {"returned", "returned2"}
FillCalled == fill_pc \in {"returned", "returned2", "raised"}

PairwiseDistinct(f) ==
    \A a, b \in DOMAIN f : a # b => f[a] # f[b]

\* C1: calculate_points returns exactly 8 entries whose 8 names are pairwise
\* distinct compass names.
C1_EightDistinctNames ==
    points # << >> =>
        /\ Len(points) = 8
        /\ PairwiseDistinct([k \in 1..Len(points) |-> points[k].name])

\* C2: for the step s passed to calculate_points, every returned point is
\* offset from the centre by -s, 0 or +s in row and in column, not both
\* zero, and the 8 positions are pairwise distinct (the ring at Chebyshev
\* distance s, centre excluded).
C2_RingAtPassedStep ==
    points # << >> =>
        /\ Len(points) = 8
        /\ \A k \in 1..Len(points) :
              /\ points[k].j - call.lat \in {-call.istep, 0, call.istep}
              /\ points[k].i - call.lon \in {-call.istep, 0, call.istep}
              /\ << points[k].j, points[k].i >> # << call.lat, call.lon >>
        /\ PairwiseDistinct([k \in 1..Len(points) |-> << points[k].j, points[k].i >>])

InBounds(p) == 0 <= p.j /\ p.j < NumY /\ 0 <= p.i /\ p.i < NumX

\* C3: a neighbour index that is negative or >= the grid dimension is
\* reported: no series is ever extracted through such an index (read
\* wrapped around or clamped).
C3_NoSeriesFromOutOfBounds ==
    Extracted => \A k \in 1..Len(taken.pts) : InBounds(taken.pts[k])

\* C4: a completed extraction yields exactly 8 series, each with one sample
\* per timestamp of the dataset, and series k at time t is the data field
\* indexed directly at (time = t, y = points[k].j, x = points[k].i), in the
\* order of the points list, missing samples included.
C4_ExtractionIsGather ==
    Extracted =>
        /\ Len(taken.pts) = 8
        /\ Len(subset) = 8
        /\ \A k \in 1..8 :
              /\ DOMAIN subset[k] = 0..(NumTimes(taken.ds) - 1)
              /\ \A t \in 0..(NumTimes(taken.ds) - 1) :
                    subset[k][t] =
                        Field(taken.ds)[t][taken.pts[k].j % NumY][taken.pts[k].i % NumX]

C4_Witness ==
    /\ Extracted
    /\ taken.ds = "series"
    /\ \E k \in 1..Len(subset) : isnan(subset[k][0]) /\ ~isnan(subset[k][1])
    /\ \E k \in 1..Len(subset) : taken.pts[k].j < 0

LatErr(r, c) == Abs(abi_lat[r][c].val - target_lat)
LonErr(r, c) == Abs(abi_lon[r][c].val - target_lon)

ExactCellExists ==
    \E r \in DOMAIN abi_lat : \E c \in DOMAIN abi_lat[r] :
        LatErr(r, c) = 0 /\ LonErr(r, c) = 0

\* Latitude is the same along every row and longitude along every column.
AxisAligned ==
    \A r \in DOMAIN abi_lat : \A c \in DOMAIN abi_lat[r] :
        abi_lat[r][c] = abi_lat[r][0] /\ abi_lon[r][c] = abi_lon[0][c]

\* C5 as stated: if some cell of the grid has exactly the target latitude
\* and longitude, the two-pass search returns a cell with zero latitude and
\* zero longitude error.
C5_ExactCellFound ==
    (Located /\ ExactCellExists) =>
        LatErr(lat_idx, lon_idx) = 0 /\ LonErr(lat_idx, lon_idx) = 0

\* C5 amended: on an axis-aligned grid (latitude constant along rows,
\* longitude constant along columns) that has a cell with exactly the target
\* latitude and longitude, the two-pass search returns a cell with zero
\* latitude and zero longitude error.
C5_ExactCellFoundAxisAligned ==
    (Located /\ AxisAligned /\ ExactCellExists) =>
        LatErr(lat_idx, lon_idx) = 0 /\ LonErr(lat_idx, lon_idx) = 0

C5_Witness ==
    /\ Located /\ AxisAligned /\ ExactCellExists
    /\ lat_idx > 0 /\ lon_idx > 0

EachColumnHasValue(g) ==
    \A c \in DOMAIN g[0] : \E r \in DOMAIN g : ~isnan(g[r][c])

NoUndefined(g) ==
    \A r \in DOMAIN g : \A c \in DOMAIN g[r] : ~isnan(g[r][c])

KeepsDefined(before, after) ==
    \A r \in DOMAIN before : \A c \in DOMAIN before[r] :
        ~isnan(before[r][c]) => after[r][c] = before[r][c]

\* C7: on a grid whose every column has a defined value, forward_fill_2d
\* returns a grid of the same shape with no undefined cell, in which every
\* cell defined in the input keeps its value; applied to that output it
\* returns a grid equal to it cell for cell.
C7_FillIdempotent ==
    (FillCalled /\ EachColumnHasValue(pre)) =>
        /\ FillReturned
        /\ DOMAIN heap[ret] = DOMAIN pre
        /\ \A r \in DOMAIN pre : DOMAIN heap[ret][r] = DOMAIN pre[r]
        /\ NoUndefined(heap[ret])
        /\ KeepsDefined(pre, heap[ret])
        /\ fill_pc = "returned2" => heap[ret] = pre

\* The filler ran twice, the first time on a copy of a grid with a gap
\* between two defined cells of a column and a gap at a column's end.
C7_Witness ==
    /\ fill_pc = "returned2"
    /\ arg = "copy"
    /\ \E c \in DOMAIN heap["raw"][0] :
          /\ ~isnan(heap["raw"][0][c])
          /\ isnan(heap["raw"][1][c])
          /\ ~isnan(heap["raw"][2][c])
    /\ \E c \in DOMAIN heap["raw"][0] : isnan(heap["raw"][0][c])

\* C8: forward_fill_2d does not mutate its input: when it has returned, the
\* array object passed in holds what it held before the call, and the
\* result is another object.
C8_InputNotMutated ==
    FillReturned => (heap[arg] = pre /\ ret # arg)

\* C9: whenever the series are extracted from a dataset, the centre index
\* that calculate_points read was located on the grid of that dataset.
C9_CentreFromSameDataset ==
    Extracted => taken.of = taken.ds

\* C10: given a grid with a column that has no defined value, forward_fill_2d
\* raises and returns no grid.
C10_EmptyColumnRaises ==
    (FillCalled /\ ~EachColumnHasValue(pre)) =>
        (fill_pc = "raised" /\ ret = NoRef)

\* The filler raised on the second column after filling a gap of the first.
C10_Witness ==
    /\ fill_pc = "raised"
    /\ ~EachColumnHasValue(pre)
    /\ heap[arg] # pre

====
